---------------------------- MODULE Spec2Model ----------------------------
(***************************************************************************)
(* A model of aranet-rs (src/src/lib.rs): the binary record decoders and   *)
(* the discovery pipeline discover_aranet4, with the consumer loop of      *)
(* src/src/main.rs pulling from the merged stream.                         *)
(*                                                                         *)
(* Byte sequences are 1-indexed here: Rust's data[i] is data[i+1], and the *)
(* Rust range data[a..b] is SubSeq(data, a+1, b).                          *)
(***************************************************************************)
EXTENDS Integers, Sequences, FiniteSets, TLC

VARIABLES
    pc,            \* where discover_aranet4 / the returned stream stands
    nAdapters,     \* adapters.len() as returned by manager.adapters()
    idx,           \* adapter_idx of the setup loop
    scanning,      \* adapters on which start_scan succeeded (and no stop_scan since)
    subscribed,    \* adapters whose events() stream is alive
    events,        \* per adapter: the events its source has delivered, in order
    srcEnded,      \* adapters whose event source has ended
    taken,         \* per adapter: how many of its events the stream has pulled
    active,        \* the streams still held by select_all
    cstate,        \* consumer: "idle", or "waiting" inside discovered.next().await
    lastPull,      \* what the consumer's last next() returned
    out,           \* the DiscoveredAranet records handed to the consumer, in order
    err,           \* the error discover_aranet4 returned, or NoError
    transportErr,  \* the error the transport reported during setup, or NoError
    fault,         \* the event whose processing panicked, or NoFault
    dKind,         \* decoder harness: which decoder was applied
    dIn,           \* decoder harness: its input bytes
    dOut,          \* decoder harness: its outcome
    hpc,           \* peripheral / Aranet4 handle: "absent", "closed", "discovering"
                   \* (new pends on discover_services), "open", "reading", "panicked"
    connected,     \* whether the peripheral is connected
    services,      \* the services the peripheral has enumerated so far
    devServices,   \* the services the device exposes (what discovery finds)
    hOp,           \* the last operation called on the peripheral or the handle
    hChecked,      \* what that call's is_connected() answered
    hBefore,       \* device.services() as Aranet4::new found it
    hDiscovered,   \* whether Aranet4::new called discover_services
    hResult,       \* what the last call returned
    hReads,        \* the characteristic UUIDs read from the device, in order
    hRaw,          \* Some(bytes) the device answered the last call's read with, or None
    nConnected,    \* calls on the handle answered "connected" by is_connected()
    nOther,        \* calls on the handle answered otherwise
    cliPc,         \* main: "args", "manager" (in Manager::new), "discovering" (in
                   \* discover_aranet4), "listening" (in discovered.next(), or
                   \* handling what it returned), "sleeping", "exited", "failed"
                   \* (main returned the setup's error), "panicked"
    argFormat,     \* args.format, as update_from_cgi left it
    argActive,     \* args.active
    argRepeat,     \* args.repeat
    argInterval,   \* args.interval
    argDevice,     \* args.device
    cliReading,    \* first.current_reading of the last sample (its interval)
    cliWait,       \* what main did after the last sample: NoWait, Sleep(secs) or a panic
    cliSamples     \* samples printed

pipeVars == <<pc, nAdapters, idx, scanning, subscribed, events, srcEnded, taken,
              active, cstate, lastPull, out, err, transportErr, fault>>
decVars == <<dKind, dIn, dOut>>
devVars == <<hpc, connected, services, devServices, hOp, hChecked, hBefore,
             hDiscovered, hResult, hReads, hRaw, nConnected, nOther>>
cliVars == <<cliPc, argFormat, argActive, argRepeat, argInterval, argDevice, cliReading, cliWait,
            cliSamples>>
vars == <<pipeVars, decVars, devVars, cliVars>>
notPipeVars == <<decVars, devVars, cliVars>>
notDecVars == <<pipeVars, devVars, cliVars>>
notDevVars == <<pipeVars, decVars, cliVars>>
notMainVars == <<decVars, devVars>>

---------------------------------------------------------------------------
(* Bounds of the model. *)

MaxAdapters == 2
MaxEvents == 2

---------------------------------------------------------------------------
(* Values. *)

None == [tag |-> "None"]
Some(v) == [tag |-> "Some", val |-> v]
Ok(v) == [tag |-> "Ok", val |-> v]
Panic(m) == [tag |-> "Panic", msg |-> m]

Byte == 0 .. 255

u16_from_le_bytes(lo, hi) == lo + 256 * hi

(* f32 values.  A finite f32 is [m, e], the number m * 2^e: m = 0 and e = 0  *)
(* for zero, otherwise 2^23 <= m < 2^24 (the 24-bit significand).  The      *)
(* values computed here are positive and normal.  Rounding is to nearest,   *)
(* ties to even.                                                            *)

F32(m, e) == [m |-> m, e |-> e]

\* The number of bits of n: the least k with n < 2^k.
BitLen(n) == CHOOSE k \in 0 .. 31 : n < 2 ^ k /\ (k = 0 \/ n >= 2 ^ (k - 1))

\* q (with remainder r out of d) rounded to nearest, ties to even.
RoundHalfEven(q, r, d) == IF 2 * r > d \/ (2 * r = d /\ q % 2 = 1) THEN q + 1 ELSE q

\* A rounded significand that reached 2^24 is renormalised.
F32Norm(q, e) == IF q = 16777216 THEN F32(8388608, e + 1) ELSE F32(q, e)

\* The f32 literals 0.05 and 0.1: significand 0xCCCCCD, exponents -28 and -27.
F32_0_05 == F32(13421773, -28)
F32_0_1 == F32(13421773, -27)

\* `r as f32 * c` for a u16 r and an f32 constant c.  The 40-bit product
\* r * c.m is kept as H * 2^16 + L.
F32MulU16(r, c) ==
    IF r = 0 THEN F32(0, 0)
    ELSE LET A == r * (c.m \div 4096)
             B == r * (c.m % 4096)
             T == (A % 16) * 4096 + B
             H == A \div 16 + T \div 65536
             L == T % 65536
             s == BitLen(H) - 8
             q == H * 2 ^ (16 - s) + L \div 2 ^ s
         IN  F32Norm(RoundHalfEven(q, L % 2 ^ s, 2 ^ s), c.e + s)

\* `b as f32 / d` for a u8 b and a small integer d (an exact f32).
F32DivU8(b, d) ==
    IF b = 0 THEN F32(0, 0)
    ELSE LET k == CHOOSE j \in 0 .. 31 :
                      /\ b * 2 ^ j >= d * 8388608
                      /\ (j = 0 \/ b * 2 ^ (j - 1) < d * 8388608)
             n == b * 2 ^ k
         IN  F32Norm(RoundHalfEven(n \div d, n % d, d), -k)

MANUFACTURER_ID == 1794

Version_new(major, minor, patch) == [major |-> major, minor |-> minor, patch |-> patch]

CalibrationState_from_raw(b) ==
    CASE b = 0 -> Some("NotActive")
      [] b = 1 -> Some("EndRequest")
      [] b = 2 -> Some("InProgress")
      [] b = 3 -> Some("Error")
      [] OTHER -> None

---------------------------------------------------------------------------
(* The decoders.  A decoder's outcome is Ok(record) or Panic(message): the  *)
(* code has no error return, an input it rejects panics.                    *)

\* A co2 field whose "no reading" is handed on as 0 ppm.
Co2Of_AbsentIsZero(data) ==
    LET r == u16_from_le_bytes(data[1], data[2])
    IN  IF r \div 32768 # 1 THEN Some(r) ELSE Some(0)

Co2Of(data) ==
    LET r == u16_from_le_bytes(data[1], data[2])
    IN  IF r \div 32768 # 1 THEN Some(r) ELSE None

\* A temperature field filtered on bit 15, as co2 and pressure are.
TemperatureOf_Bit15(data) ==
    LET r == u16_from_le_bytes(data[3], data[4])
    IN  IF r \div 32768 # 1 THEN Some(F32MulU16(r, F32_0_05)) ELSE None

TemperatureOf(data) ==
    LET r == u16_from_le_bytes(data[3], data[4])
    IN  IF (r \div 16384) % 2 # 1 THEN Some(F32MulU16(r, F32_0_05)) ELSE None

PressureOf(data) ==
    LET r == u16_from_le_bytes(data[5], data[6])
    IN  IF r \div 32768 # 1 THEN Some(F32MulU16(r, F32_0_1)) ELSE None

HumidityOf(data) == F32DivU8(data[7], 100)

BatteryOf(data) == F32DivU8(data[8], 100)

CurrentReading_parse(data) ==
    IF data[9] \in {1, 2, 3}
    THEN Ok([co2_ppm |-> Co2Of(data), temperature_c |-> TemperatureOf(data),
             pressure_hpa |-> PressureOf(data),
             humidity |-> HumidityOf(data), battery |-> BatteryOf(data),
             status |-> CASE data[9] = 1 -> "Green"
                          [] data[9] = 2 -> "Yellow"
                          [] data[9] = 3 -> "Red"])
    ELSE Panic("unexpected display status value")

\* A detailed decoder that reads age before interval.
CurrentReadingDetailed_parse_AgeFirst(data) ==
    LET cr == CurrentReading_parse(SubSeq(data, 1, 9))
    IN  IF cr.tag = "Panic" THEN cr
        ELSE Ok([co2_ppm |-> cr.val.co2_ppm, temperature_c |-> cr.val.temperature_c,
                 pressure_hpa |-> cr.val.pressure_hpa, humidity |-> cr.val.humidity,
                 battery |-> cr.val.battery, status |-> cr.val.status,
                 interval |-> u16_from_le_bytes(data[12], data[13]),
                 age |-> u16_from_le_bytes(data[10], data[11])])

CurrentReadingDetailed_parse(data) ==
    LET cr == CurrentReading_parse(SubSeq(data, 1, 9))
    IN  IF cr.tag = "Panic" THEN cr
        ELSE Ok([co2_ppm |-> cr.val.co2_ppm, temperature_c |-> cr.val.temperature_c,
                 pressure_hpa |-> cr.val.pressure_hpa, humidity |-> cr.val.humidity,
                 battery |-> cr.val.battery, status |-> cr.val.status,
                 interval |-> u16_from_le_bytes(data[10], data[11]),
                 age |-> u16_from_le_bytes(data[12], data[13])])

\* A decoder that takes bytes 1, 2, 3 as major, minor, patch.
\* ManufacturerData::parse without the 2-bit mask on the calibration field.
ManufacturerData_parse_Unmasked(data) ==
    LET cal == CalibrationState_from_raw(data[1] \div 4)
    IN  IF cal.tag = "None" THEN Panic("unexpected value for calibration state")
        ELSE Ok([disconnected |-> data[1] % 2 # 0,
                 calibration_state |-> cal.val,
                 dfu_active |-> (data[1] \div 16) % 2 # 0,
                 integrations |-> (data[1] \div 32) % 2 # 0,
                 version |-> Version_new(data[4], data[3], data[2])])

ManufacturerData_parse_VersionOrder(data) ==
    LET cal == CalibrationState_from_raw((data[1] \div 4) % 4)
    IN  IF cal.tag = "None" THEN Panic("unexpected value for calibration state")
        ELSE Ok([disconnected |-> data[1] % 2 # 0,
                 calibration_state |-> cal.val,
                 dfu_active |-> (data[1] \div 16) % 2 # 0,
                 integrations |-> (data[1] \div 32) % 2 # 0,
                 version |-> Version_new(data[2], data[3], data[4])])

ManufacturerData_parse(data) ==
    LET cal == CalibrationState_from_raw((data[1] \div 4) % 4)
    IN  IF cal.tag = "None" THEN Panic("unexpected value for calibration state")
        ELSE Ok([disconnected |-> data[1] % 2 # 0,
                 calibration_state |-> cal.val,
                 dfu_active |-> (data[1] \div 16) % 2 # 0,
                 integrations |-> (data[1] \div 32) % 2 # 0,
                 version |-> Version_new(data[4], data[3], data[2])])

---------------------------------------------------------------------------
(* Central events.  An event is [kind, id, mfg]: mfg is the advertisement's *)
(* map from manufacturer ID to payload, empty for the other kinds.          *)

OtherKinds == {"DeviceDiscovered", "DeviceUpdated", "DeviceConnected",
               "DeviceDisconnected", "ServiceDataAdvertisement", "ServicesAdvertisement"}

NoData == [m \in {} |-> <<>>]

Mfg7 == <<32, 0, 2, 1, 0, 0, 0>>
ReadingGreen == <<32, 3, 144, 1, 146, 39, 45, 80, 1, 60, 0, 10, 0>>
ReadingNoCo2 == <<0, 128, 144, 65, 146, 39, 45, 80, 3, 44, 1, 200, 0>>
ReadingBadStatus == [ReadingGreen EXCEPT ![9] = 0]

Payload5 == SubSeq(Mfg7, 1, 5)
Payload7 == Mfg7
Payload21 == Mfg7 \o <<0>> \o ReadingGreen
Payload20 == SubSeq(Payload21, 1, 20)
Payload22 == <<1, 5, 3, 1, 0, 0, 0>> \o <<0>> \o ReadingNoCo2 \o <<7>>
PayloadBadStatus == Mfg7 \o <<0>> \o ReadingBadStatus

Advertisement(id, mfg) == [kind |-> "ManufacturerDataAdvertisement", id |-> id, mfg |-> mfg]

Events ==
    { [kind |-> k, id |-> "p1", mfg |-> NoData] : k \in OtherKinds }
    \cup { Advertisement("p1", MANUFACTURER_ID :> p) :
             p \in {Payload5, Payload7, Payload20, Payload21, PayloadBadStatus} }
    \cup { Advertisement("p2", (MANUFACTURER_ID :> Payload22) @@ (76 :> Payload21)),
           Advertisement("p2", 76 :> Payload21) }

\* A manufacturer-data advertisement with an entry keyed by the target manufacturer ID.
IsMatching(ce) ==
    ce.kind = "ManufacturerDataAdvertisement" /\ MANUFACTURER_ID \in DOMAIN ce.mfg

---------------------------------------------------------------------------
(* The closure given to filter_map: Some(record), None, or a panic.  The    *)
(* slice data[8..21] panics on its start when the payload has fewer than 8  *)
(* bytes and on its end when it has 8 to 20.                                *)

\* A closure that takes the advertisement's payload whatever its manufacturer ID.
FilterMapEvent_AnyManufacturer(adapter, ce) ==
    IF ce.kind = "ManufacturerDataAdvertisement"
    THEN LET data == ce.mfg[CHOOSE m \in DOMAIN ce.mfg : \A o \in DOMAIN ce.mfg : m >= o]
         IN  IF Len(data) < 7
             THEN Panic("range end index 7 out of range for slice")
             ELSE LET md == ManufacturerData_parse(SubSeq(data, 1, 7))
                  IN  IF md.tag = "Panic" THEN md
                      ELSE IF Len(data) < 8
                      THEN Panic("range start index 8 out of range for slice")
                      ELSE IF Len(data) < 21
                      THEN Panic("range end index 21 out of range for slice")
                      ELSE LET cr == CurrentReadingDetailed_parse(SubSeq(data, 9, 21))
                           IN  IF cr.tag = "Panic" THEN cr
                               ELSE Some([adapter |-> adapter,
                                          peripheral_id |-> ce.id,
                                          manufacturer_data |-> md.val,
                                          current_reading |-> Some(cr.val)])
    ELSE None

FilterMapEvent(adapter, ce) ==
    IF ce.kind = "ManufacturerDataAdvertisement"
    THEN IF MANUFACTURER_ID \in DOMAIN ce.mfg
         THEN LET data == ce.mfg[MANUFACTURER_ID]
              IN  IF Len(data) < 7
                  THEN Panic("range end index 7 out of range for slice")
                  ELSE LET md == ManufacturerData_parse(SubSeq(data, 1, 7))
                       IN  IF md.tag = "Panic" THEN md
                           ELSE IF Len(data) < 8
                           THEN Panic("range start index 8 out of range for slice")
                           ELSE IF Len(data) < 21
                           THEN Panic("range end index 21 out of range for slice")
                           ELSE LET cr == CurrentReadingDetailed_parse(SubSeq(data, 9, 21))
                                IN  IF cr.tag = "Panic" THEN cr
                                    ELSE Some([adapter |-> adapter,
                                               peripheral_id |-> ce.id,
                                               manufacturer_data |-> md.val,
                                               current_reading |-> Some(cr.val)])
         ELSE None
    ELSE None

---------------------------------------------------------------------------
(* discover_aranet4: setup.                                                 *)

NoError == <<0, "none">>
NoFault == <<0, 0>>

Adapters == 1 .. nAdapters

TotalEvents == LET S[a \in 0 .. MaxAdapters] == IF a = 0 THEN 0 ELSE S[a - 1] + Len(events[a])
               IN  S[MaxAdapters]

Init ==
    /\ pc = "adapters"
    /\ nAdapters = 0
    /\ idx = 0
    /\ scanning = {}
    /\ subscribed = {}
    /\ events = [a \in 1 .. MaxAdapters |-> <<>>]
    /\ srcEnded = {}
    /\ taken = [a \in 1 .. MaxAdapters |-> 0]
    /\ active = {}
    /\ cstate = "idle"
    /\ lastPull = "none"
    /\ out = <<>>
    /\ err = NoError
    /\ transportErr = NoError
    /\ fault = NoFault
    /\ dKind = "none"
    /\ dIn = <<>>
    /\ dOut = None
    /\ hpc = "absent"
    /\ connected = FALSE
    /\ services = {}
    /\ devServices = {}
    /\ hOp = "none"
    /\ hChecked = "none"
    /\ hBefore = {}
    /\ hDiscovered = FALSE
    /\ hResult = None
    /\ hReads = <<>>
    /\ hRaw = None
    /\ nConnected = 0
    /\ nOther = 0
    /\ cliPc = "args"
    /\ argFormat = "Text"
    /\ argActive = FALSE
    /\ argRepeat = FALSE
    /\ argInterval = None
    /\ argDevice = None
    /\ cliReading = None
    /\ cliWait = None
    /\ cliSamples = 0

\* The error return of `?`: event_streams is dropped with the frame.
Fail(e) ==
    /\ pc' = "failed"
    /\ err' = e
    /\ subscribed' = {}
    /\ UNCHANGED <<nAdapters, idx, scanning, events, srcEnded, taken, active,
                   cstate, lastPull, out, fault>>

\* manager.adapters().await?
ManagerAdapters(n, ok) ==
    /\ pc = "adapters"
    /\ UNCHANGED notPipeVars
    /\ transportErr' = IF ok THEN transportErr ELSE <<0, "adapters">>
    /\ IF ok
       THEN /\ nAdapters' = n
            /\ IF n = 0
               THEN /\ pc' = "streaming"
                    /\ active' = {}
                    /\ idx' = idx
               ELSE /\ pc' = "scan"
                    /\ idx' = 1
                    /\ active' = active
            /\ UNCHANGED <<scanning, subscribed, events, srcEnded, taken,
                           cstate, lastPull, out, err, fault>>
       ELSE Fail(<<0, "adapters">>)

\* A start_scan whose error is logged and the loop goes on to events().
StartScan_Swallow(ok) ==
    /\ pc = "scan"
    /\ transportErr' = IF ok THEN transportErr ELSE <<idx, "start_scan">>
    /\ scanning' = IF ok THEN scanning \cup {idx} ELSE scanning
    /\ pc' = "events"
    /\ UNCHANGED <<nAdapters, idx, subscribed, events, srcEnded, taken, active,
                   cstate, lastPull, out, err, fault>>
    /\ UNCHANGED notPipeVars

\* adapter.start_scan(ScanFilter { .. }).await?
StartScan(ok) ==
    /\ pc = "scan"
    /\ UNCHANGED notPipeVars
    /\ transportErr' = IF ok THEN transportErr ELSE <<idx, "start_scan">>
    /\ IF ok
       THEN /\ scanning' = scanning \cup {idx}
            /\ pc' = "events"
            /\ UNCHANGED <<nAdapters, idx, subscribed, events, srcEnded, taken, active,
                           cstate, lastPull, out, err, fault>>
       ELSE Fail(<<idx, "start_scan">>)

\* adapter.events().await?, then event_streams.push(..) and the next iteration.
Subscribe(ok) ==
    /\ pc = "events"
    /\ UNCHANGED notPipeVars
    /\ transportErr' = IF ok THEN transportErr ELSE <<idx, "events">>
    /\ IF ok
       THEN /\ subscribed' = subscribed \cup {idx}
            /\ IF idx = nAdapters
               THEN /\ pc' = "streaming"
                    /\ active' = subscribed \cup {idx}
                    /\ idx' = idx
               ELSE /\ pc' = "scan"
                    /\ idx' = idx + 1
                    /\ active' = active
            /\ UNCHANGED <<nAdapters, scanning, events, srcEnded, taken,
                           cstate, lastPull, out, err, fault>>
       ELSE Fail(<<idx, "events">>)

---------------------------------------------------------------------------
(* The transport: an adapter's event source delivers events, or ends.       *)

Deliver(a, ce) ==
    /\ pc \in {"scan", "events", "streaming"}
    /\ a \in subscribed
    /\ a \notin srcEnded
    /\ TotalEvents < MaxEvents
    /\ events' = [events EXCEPT ![a] = Append(@, ce)]
    /\ UNCHANGED <<pc, nAdapters, idx, scanning, subscribed, srcEnded, taken, active,
                   cstate, lastPull, out, err, transportErr, fault>>
    /\ UNCHANGED notPipeVars

SourceEnd(a) ==
    /\ pc \in {"scan", "events", "streaming"}
    /\ a \in subscribed
    /\ a \notin srcEnded
    /\ srcEnded' = srcEnded \cup {a}
    /\ UNCHANGED <<pc, nAdapters, idx, scanning, subscribed, events, taken, active,
                   cstate, lastPull, out, err, transportErr, fault>>
    /\ UNCHANGED notPipeVars

---------------------------------------------------------------------------
(* The consumer and the merged stream.                                      *)

\* discovered.next() is called.
ConsumerNext ==
    /\ pc = "streaming"
    /\ cstate = "idle"
    /\ cstate' = "waiting"
    /\ UNCHANGED <<pc, nAdapters, idx, scanning, subscribed, events, srcEnded, taken,
                   active, lastPull, out, err, transportErr, fault>>
    /\ UNCHANGED notPipeVars

\* select_all polls adapter a's stream, which has an event ready: the closure runs.
\* A panic of the closure unwinds out of next(); the stream being polled is
\* released by select_all on the way and dropped.
PollEvent(a) ==
    /\ pc = "streaming"
    /\ cstate = "waiting"
    /\ a \in active
    /\ taken[a] < Len(events[a])
    /\ LET ce == events[a][taken[a] + 1]
           r == FilterMapEvent(a, ce)
       IN  /\ taken' = [taken EXCEPT ![a] = @ + 1]
           /\ CASE r.tag = "Some" ->
                     /\ out' = Append(out, r.val)
                     /\ cstate' = "idle"
                     /\ lastPull' = "item"
                     /\ UNCHANGED <<pc, fault, subscribed, active>>
                [] r.tag = "None" ->
                     UNCHANGED <<out, cstate, lastPull, pc, fault, subscribed, active>>
                [] r.tag = "Panic" ->
                     /\ pc' = "panicked"
                     /\ fault' = <<a, taken[a] + 1>>
                     /\ subscribed' = subscribed \ {a}
                     /\ active' = active \ {a}
                     /\ UNCHANGED <<out, cstate, lastPull>>
    /\ UNCHANGED <<nAdapters, idx, scanning, events, srcEnded, err, transportErr>>
    /\ UNCHANGED notPipeVars

\* A merge that gives up every stream when the first one ends.
PollSourceEnded_EndsAll(a) ==
    /\ pc = "streaming"
    /\ cstate = "waiting"
    /\ a \in active
    /\ taken[a] = Len(events[a])
    /\ a \in srcEnded
    /\ active' = {}
    /\ subscribed' = {}
    /\ UNCHANGED <<pc, nAdapters, idx, scanning, events, srcEnded, taken,
                   cstate, lastPull, out, err, transportErr, fault>>
    /\ UNCHANGED notPipeVars

\* select_all polls adapter a's stream, which has ended: it is not pushed
\* back but dropped.
PollSourceEnded(a) ==
    /\ pc = "streaming"
    /\ cstate = "waiting"
    /\ a \in active
    /\ taken[a] = Len(events[a])
    /\ a \in srcEnded
    /\ active' = active \ {a}
    /\ subscribed' = subscribed \ {a}
    /\ UNCHANGED <<pc, nAdapters, idx, scanning, events, srcEnded, taken,
                   cstate, lastPull, out, err, transportErr, fault>>
    /\ UNCHANGED notPipeVars

\* A merge that reports its end only once a stream it held has ended: built
\* over no stream at all it stays pending.
PollNone_PendsWhenEmpty ==
    /\ pc = "streaming"
    /\ cstate = "waiting"
    /\ active = {}
    /\ nAdapters > 0
    /\ cstate' = "idle"
    /\ lastPull' = "end"
    /\ UNCHANGED <<pc, nAdapters, idx, scanning, subscribed, events, srcEnded, taken,
                   active, out, err, transportErr, fault>>
    /\ UNCHANGED notPipeVars

\* select_all holds no stream: next() returns None.
PollNone ==
    /\ pc = "streaming"
    /\ cstate = "waiting"
    /\ active = {}
    /\ cstate' = "idle"
    /\ lastPull' = "end"
    /\ UNCHANGED <<pc, nAdapters, idx, scanning, subscribed, events, srcEnded, taken,
                   active, out, err, transportErr, fault>>
    /\ UNCHANGED notPipeVars

\* The consumer drops the stream, of its own accord or unwinding from a panic
\* of next(): every events() stream goes with it.  Nothing in the repository
\* calls stop_scan.
Drop ==
    /\ pc \in {"streaming", "panicked"}
    /\ pc' = "dropped"
    /\ subscribed' = {}
    /\ active' = {}
    /\ cstate' = "idle"
    /\ UNCHANGED <<nAdapters, idx, scanning, events, srcEnded, taken,
                   lastPull, out, err, transportErr, fault>>
    /\ UNCHANGED notPipeVars

Next ==
    \/ \E n \in 0 .. MaxAdapters, ok \in BOOLEAN : ManagerAdapters(n, ok)
    \/ \E ok \in BOOLEAN : StartScan(ok)
    \/ \E ok \in BOOLEAN : Subscribe(ok)
    \/ \E a \in 1 .. MaxAdapters, ce \in Events : Deliver(a, ce)
    \/ \E a \in 1 .. MaxAdapters : SourceEnd(a)
    \/ ConsumerNext
    \/ \E a \in 1 .. MaxAdapters : PollEvent(a)
    \/ \E a \in 1 .. MaxAdapters : PollSourceEnded(a)
    \/ PollNone
    \/ Drop

Spec == Init /\ [][Next]_vars

---------------------------------------------------------------------------
(* The decoders on their own: a decoder is applied to an input drawn from   *)
(* a bounded set of byte arrays.                                            *)

Word(w) == <<w % 256, w \div 256>>

Co2Words == {800, 32768}
TempWords == {400, 16784}
PressureWords == {10130}
HumidityBytes == {45}
BatteryBytes == {80}
StatusBytes == Byte
IntervalWords == {60}
AgeWords == {10, 300}

\* Words that exercise both bytes of a little-endian u16.
SampleWords ==
    { lo + 256 * hi : lo \in Byte, hi \in {0, 1, 127, 128, 255} }
    \cup { lo + 256 * hi : lo \in {0, 1, 255}, hi \in Byte }

BaseReading == SubSeq(ReadingGreen, 1, 9)

ReadingInputs ==
    { Word(c) \o Word(t) \o Word(p) \o <<h, b, s>> :
        c \in Co2Words, t \in TempWords, p \in PressureWords,
        h \in HumidityBytes, b \in BatteryBytes, s \in StatusBytes }
    \cup { Word(c) \o SubSeq(BaseReading, 3, 9) : c \in SampleWords }
    \cup { SubSeq(BaseReading, 1, 2) \o Word(t) \o SubSeq(BaseReading, 5, 9) : t \in SampleWords }
    \cup { SubSeq(BaseReading, 1, 4) \o Word(p) \o SubSeq(BaseReading, 7, 9) : p \in SampleWords }
    \cup { SubSeq(BaseReading, 1, 6) \o <<h, b, 2>> : h \in Byte, b \in {0, 80, 100, 255} }
    \cup { SubSeq(BaseReading, 1, 6) \o <<h, b, 3>> : h \in {0, 45, 100, 255}, b \in Byte }

DetailedInputs ==
    { r \o Word(i) \o Word(g) :
        r \in { Word(c) \o Word(t) \o Word(p) \o <<h, b, s>> :
                   c \in Co2Words, t \in TempWords, p \in PressureWords,
                   h \in HumidityBytes, b \in BatteryBytes, s \in StatusBytes },
        i \in IntervalWords, g \in AgeWords }
    \cup { SubSeq(ReadingNoCo2, 1, 9) \o Word(i) \o Word(g) : i \in SampleWords, g \in {0, 10, 65535} }
    \cup { BaseReading \o Word(i) \o Word(g) : i \in {0, 60, 65535}, g \in SampleWords }

ManufacturerInputs ==
    { <<f, 1, 2, 3, 0, 0, 0>> : f \in Byte }
    \cup { <<f, x, y, z, 0, 0, 0>> : f \in {0, 33}, x \in {0, 200}, y \in Byte, z \in {1, 255} }
    \cup { <<f, 0, 2, 1, u, v, w>> : f \in {0, 12, 255}, u \in {0, 255}, v \in {0, 255}, w \in {0, 7, 255} }

\* One call of a decoder per behaviour: the input is drawn, the decoder applied.
ParseCurrentReading(data) ==
    /\ dKind = "none"
    /\ dKind' = "CurrentReading"
    /\ dIn' = data
    /\ dOut' = CurrentReading_parse(data)
    /\ UNCHANGED notDecVars

ParseCurrentReadingDetailed(data) ==
    /\ dKind = "none"
    /\ dKind' = "CurrentReadingDetailed"
    /\ dIn' = data
    /\ dOut' = CurrentReadingDetailed_parse(data)
    /\ UNCHANGED notDecVars

ParseManufacturerData(data) ==
    /\ dKind = "none"
    /\ dKind' = "ManufacturerData"
    /\ dIn' = data
    /\ dOut' = ManufacturerData_parse(data)
    /\ UNCHANGED notDecVars

NextDecode ==
    \/ dKind = "none" /\ \E data \in ReadingInputs : ParseCurrentReading(data)
    \/ dKind = "none" /\ \E data \in DetailedInputs : ParseCurrentReadingDetailed(data)
    \/ dKind = "none" /\ \E data \in ManufacturerInputs : ParseManufacturerData(data)

SpecDecode == Init /\ [][NextDecode]_vars

---------------------------------------------------------------------------
(* The device abstraction: Aranet4::new and the read operations of the     *)
(* handle, against a peripheral that connects, disconnects and answers.    *)

MaxCalls == 2

Err(e) == [tag |-> "Err", err |-> e]

AR4_OLD_SERVICE == "f0cd1400-95da-4f4b-9ac8-aa55d312af0c"
AR4_SERVICE == "0000fce0-0000-1000-8000-00805f9b34fb"
GENERIC_SERVICE == "00001800-0000-1000-8000-00805f9b34fb"
COMMON_SERVICE == "0000180a-0000-1000-8000-00805f9b34fb"

AR4_READ_CURRENT_READINGS == "f0cd1503-95da-4f4b-9ac8-aa55d312af0c"
AR4_READ_CURRENT_READINGS_DET == "f0cd3001-95da-4f4b-9ac8-aa55d312af0c"
AR4_READ_INTERVAL == "f0cd2002-95da-4f4b-9ac8-aa55d312af0c"
AR4_READ_SECONDS_SINCE_UPDATE == "f0cd2004-95da-4f4b-9ac8-aa55d312af0c"
AR4_READ_TOTAL_READINGS == "f0cd2001-95da-4f4b-9ac8-aa55d312af0c"
GENERIC_READ_DEVICE_NAME == "00002a00-0000-1000-8000-00805f9b34fb"
COMMON_READ_SW_REV == "00002a26-0000-1000-8000-00805f9b34fb"

\* The peripherals met: current firmware, firmware before v1.2.0, another
\* device, and one with no services at all.
DeviceKinds ==
    { {AR4_SERVICE, GENERIC_SERVICE, COMMON_SERVICE},
      {AR4_OLD_SERVICE, GENERIC_SERVICE, COMMON_SERVICE},
      {GENERIC_SERVICE, COMMON_SERVICE},
      {} }

\* What is_connected() answers: the connection state, or a transport error.
IsConnectedAnswers == {Ok(connected), Err("Transport")}

\* What the device holds in each characteristic.
DeviceValue(uuid) ==
    CASE uuid = AR4_READ_CURRENT_READINGS -> BaseReading
      [] uuid = AR4_READ_CURRENT_READINGS_DET -> BaseReading \o <<60, 0, 10, 0>>
      [] uuid = AR4_READ_INTERVAL -> <<60, 0>>
      [] uuid = AR4_READ_SECONDS_SINCE_UPDATE -> <<10, 0>>
      [] uuid = AR4_READ_TOTAL_READINGS -> <<210, 4>>
      [] uuid = GENERIC_READ_DEVICE_NAME -> <<65, 114, 97, 110, 101, 116, 52>>
      [] uuid = COMMON_READ_SW_REV -> <<118, 49, 46, 50, 46, 48>>

\* The payloads a read of the characteristic may be answered with: its value,
\* or a payload of another length or content.
Answers(uuid) ==
    {DeviceValue(uuid), <<>>, Append(DeviceValue(uuid), 0), <<195, 169>>, <<195, 40>>}

\* String::from_utf8 accepts exactly the well-formed UTF-8 byte sequences.
RECURSIVE Utf8Valid(_)
Utf8Valid(b) ==
    LET n == Len(b)
        Cont(i) == i <= n /\ b[i] \in 128 .. 191
        Rest(k) == Utf8Valid(SubSeq(b, k + 1, n))
    IN  IF n = 0 THEN TRUE
        ELSE IF b[1] < 128 THEN Rest(1)
        ELSE IF b[1] \in 194 .. 223 THEN Cont(2) /\ Rest(2)
        ELSE IF b[1] = 224 THEN Cont(2) /\ b[2] >= 160 /\ Cont(3) /\ Rest(3)
        ELSE IF b[1] = 237 THEN Cont(2) /\ b[2] <= 159 /\ Cont(3) /\ Rest(3)
        ELSE IF b[1] \in 225 .. 239 THEN Cont(2) /\ Cont(3) /\ Rest(3)
        ELSE IF b[1] = 240 THEN Cont(2) /\ b[2] >= 144 /\ Cont(3) /\ Cont(4) /\ Rest(4)
        ELSE IF b[1] \in 241 .. 243 THEN Cont(2) /\ Cont(3) /\ Cont(4) /\ Rest(4)
        ELSE IF b[1] = 244 THEN Cont(2) /\ b[2] <= 143 /\ Cont(3) /\ Cont(4) /\ Rest(4)
        ELSE FALSE

Ops == {"current_readings", "current_readings_details", "interval", "name",
        "version", "last_update_age", "total_readings"}

\* The characteristic each operation passes to device.read.
CharacteristicOf(op) ==
    CASE op = "current_readings" -> AR4_READ_CURRENT_READINGS
      [] op = "current_readings_details" -> AR4_READ_CURRENT_READINGS_DET
      [] op = "interval" -> AR4_READ_INTERVAL
      [] op = "name" -> GENERIC_READ_DEVICE_NAME
      [] op = "version" -> COMMON_READ_SW_REV
      [] op = "last_update_age" -> AR4_READ_SECONDS_SINCE_UPDATE
      [] op = "total_readings" -> AR4_READ_SECONDS_SINCE_UPDATE

\* raw.try_into().expect(..) into [u8; 2], then u16::from_le_bytes.
ExpectU16(raw, msg) ==
    IF Len(raw) = 2 THEN Ok(u16_from_le_bytes(raw[1], raw[2])) ELSE Panic(msg)

\* String::from_utf8(raw).map_err(|e| Error::Other(..))?
FromUtf8(raw) == IF Utf8Valid(raw) THEN Ok(raw) ELSE Err("Other")

\* What the operation makes of the bytes read.
Decode(op, raw) ==
    CASE op = "current_readings" ->
            IF Len(raw) = 9 THEN CurrentReading_parse(raw)
            ELSE Panic("expected current readings to be a 9 byte array")
      [] op = "current_readings_details" ->
            IF Len(raw) = 13 THEN CurrentReadingDetailed_parse(raw)
            ELSE Panic("expected current readings (detailed) to be a 13 byte array")
      [] op = "interval" ->
            ExpectU16(raw, "expected interval to be a 2-byte little endian integer")
      [] op = "name" -> FromUtf8(raw)
      [] op = "version" -> FromUtf8(raw)
      [] op = "last_update_age" ->
            ExpectU16(raw, "expected last update age to be a 2-byte little endian integer")
      [] op = "total_readings" ->
            ExpectU16(raw, "expected total readings to be a 2-byte little endian integer")

\* A peripheral is found: it exposes dev, has enumerated some of it already
\* (all or nothing), and is connected or not.
PeripheralAppears(dev, enumerated, conn) ==
    /\ hpc = "absent"
    /\ hpc' = "closed"
    /\ devServices' = dev
    /\ services' = enumerated
    /\ connected' = conn
    /\ UNCHANGED <<hOp, hChecked, hBefore, hDiscovered, hResult, hReads, hRaw,
                   nConnected, nOther>>
    /\ UNCHANGED notDevVars

Connect ==
    /\ hpc \in {"closed", "discovering", "open", "reading"}
    /\ ~connected
    /\ connected' = TRUE
    /\ UNCHANGED <<hpc, services, devServices, hOp, hChecked, hBefore, hDiscovered,
                   hResult, hReads, hRaw, nConnected, nOther>>
    /\ UNCHANGED notDevVars

Disconnect ==
    /\ hpc \in {"closed", "discovering", "open", "reading"}
    /\ connected
    /\ connected' = FALSE
    /\ UNCHANGED <<hpc, services, devServices, hOp, hChecked, hBefore, hDiscovered,
                   hResult, hReads, hRaw, nConnected, nOther>>
    /\ UNCHANGED notDevVars

\* The service test of Aranet4::new with the legacy service taken for the
\* current one.
IsAranet_AcceptsLegacy(found) == AR4_SERVICE \in found \/ AR4_OLD_SERVICE \in found

\* device.services().iter().any(|u| u.uuid == uuids::AR4_SERVICE)
IsAranet(found) == AR4_SERVICE \in found

\* The end of Aranet4::new: the handle, or NotSupported.
NewResult(found) == IF IsAranet(found) THEN Ok("Aranet4") ELSE Err("NotSupported")

\* Aranet4::new(device) up to its second await.  chk is what is_connected()
\* answers.  With services() empty discover_services() is called and new
\* pends on it; otherwise new returns here.
Aranet4_new(chk) ==
    /\ hpc = "closed"
    /\ hOp' = "new"
    /\ hChecked' = chk
    /\ hBefore' = services
    /\ hDiscovered' = (chk = Ok(TRUE) /\ services = {})
    /\ hResult' = IF chk.tag = "Err" THEN chk
                  ELSE IF chk = Ok(FALSE) THEN Err("NotConnected")
                  ELSE IF services = {} THEN None
                  ELSE NewResult(services)
    /\ hpc' = IF hDiscovered' THEN "discovering"
              ELSE IF hResult'.tag = "Ok" THEN "open" ELSE "closed"
    /\ UNCHANGED <<connected, services, devServices, hReads, hRaw, nConnected, nOther>>
    /\ UNCHANGED notDevVars

\* discover_services() answers: an error is returned by `?`; otherwise the
\* device's services are enumerated and new ends.  The connection is not
\* looked at again.
DiscoverDone(discOk) ==
    /\ hpc = "discovering"
    /\ services' = IF discOk THEN devServices ELSE services
    /\ hResult' = IF discOk THEN NewResult(devServices) ELSE Err("Transport")
    /\ hpc' = IF hResult'.tag = "Ok" THEN "open" ELSE "closed"
    /\ UNCHANGED <<connected, devServices, hOp, hChecked, hBefore, hDiscovered,
                   hReads, hRaw, nConnected, nOther>>
    /\ UNCHANGED notDevVars

\* A read operation that answers from the last result of the same operation.
Call_Cached(op, chk) ==
    /\ hpc = "open"
    /\ nConnected + nOther < MaxCalls
    /\ hOp' = op
    /\ hChecked' = chk
    /\ IF chk = Ok(TRUE)
       THEN /\ nConnected' = nConnected + 1
            /\ IF hOp = op /\ hResult.tag = "Ok"
               THEN UNCHANGED <<hpc, hReads, hResult, hRaw>>
               ELSE /\ hpc' = "reading"
                    /\ hReads' = Append(hReads, CharacteristicOf(op))
                    /\ hResult' = None
                    /\ hRaw' = None
            /\ UNCHANGED nOther
       ELSE /\ nOther' = nOther + 1
            /\ hResult' = IF chk.tag = "Err" THEN chk ELSE Err("NotConnected")
            /\ hRaw' = None
            /\ UNCHANGED <<hpc, hReads, nConnected>>
    /\ UNCHANGED <<connected, services, devServices, hBefore, hDiscovered>>
    /\ UNCHANGED notDevVars

\* A read operation of the handle, up to its device.read: the connection
\* check, and the read issued if it answered "connected".
Call(op, chk) ==
    /\ hpc = "open"
    /\ nConnected + nOther < MaxCalls
    /\ hOp' = op
    /\ hChecked' = chk
    /\ IF chk = Ok(TRUE)
       THEN /\ nConnected' = nConnected + 1
            /\ hpc' = "reading"
            /\ hReads' = Append(hReads, CharacteristicOf(op))
            /\ hResult' = None
            /\ hRaw' = None
            /\ UNCHANGED nOther
       ELSE /\ nOther' = nOther + 1
            /\ hResult' = IF chk.tag = "Err" THEN chk ELSE Err("NotConnected")
            /\ hRaw' = None
            /\ UNCHANGED <<hpc, hReads, nConnected>>
    /\ UNCHANGED <<connected, services, devServices, hBefore, hDiscovered>>
    /\ UNCHANGED notDevVars

\* device.read answers with bytes: the operation decodes them and returns,
\* or panics.
ReadDone(raw) ==
    /\ hpc = "reading"
    /\ hRaw' = Some(raw)
    /\ hResult' = Decode(hOp, raw)
    /\ hpc' = IF hResult'.tag = "Panic" THEN "panicked" ELSE "open"
    /\ UNCHANGED <<connected, services, devServices, hOp, hChecked, hBefore,
                   hDiscovered, hReads, nConnected, nOther>>
    /\ UNCHANGED notDevVars

\* device.read fails: `?` returns the transport's error.
ReadFails ==
    /\ hpc = "reading"
    /\ hResult' = Err("Transport")
    /\ hpc' = "open"
    /\ UNCHANGED <<connected, services, devServices, hOp, hChecked, hBefore,
                   hDiscovered, hReads, hRaw, nConnected, nOther>>
    /\ UNCHANGED notDevVars

NextDevice ==
    \/ \E dev \in DeviceKinds, conn \in BOOLEAN :
           \E enumerated \in {{}, dev} : PeripheralAppears(dev, enumerated, conn)
    \/ Connect
    \/ Disconnect
    \/ \E chk \in IsConnectedAnswers : Aranet4_new(chk)
    \/ \E discOk \in BOOLEAN : DiscoverDone(discOk)
    \/ \E op \in Ops, chk \in IsConnectedAnswers : Call(op, chk)
    \/ hpc = "reading" /\ \E raw \in Answers(CharacteristicOf(hOp)) : ReadDone(raw)
    \/ ReadFails

SpecDevice == Init /\ [][NextDevice]_vars

---------------------------------------------------------------------------
(* main: the arguments, the manager, discover_aranet4, and the loop that    *)
(* pulls records from the stream, prints them, and with --repeat waits      *)
(* before pulling again.  main is the consumer of the stream: the steps of  *)
(* discover_aranet4 and of the stream above run inside its awaits.          *)
(* Intervals are whole seconds.                                            *)

NoWait == [tag |-> "NoWait"]
Sleep(secs) == [tag |-> "Sleep", secs |-> secs]

\* The values of --interval tried (absent, or a number of seconds) and of
\* --device.
IntervalArgs == {None, Some(-2), Some(-1), Some(0), Some(30)}
DeviceArgs == {None, Some("p1")}

\* let interval = match (args.interval, first.current_reading) { .. }
\* reading is the interval of first.current_reading, if there is one.
IntervalOf(interval, reading) ==
    IF interval.tag = "Some" THEN interval.val
    ELSE IF reading.tag = "Some" THEN reading.val
    ELSE 60

\* if interval != -1.0 { sleep(Duration::from_secs_f64(interval)).await }
\* Duration::from_secs_f64 panics on a negative number.
WaitOf(interval) ==
    IF interval = -1 THEN NoWait
    ELSE IF interval < 0
         THEN Panic("cannot convert float seconds to Duration: value is negative")
         ELSE Sleep(interval)

\* main returns or unwinds, or the process exits: `discovered` is gone, as
\* in Drop.
MainDropsStream ==
    /\ pc' = "dropped"
    /\ subscribed' = {}
    /\ active' = {}

\* The build: the cargo features compiled in.
Builds == [cgi_detection : BOOLEAN, serde_json : BOOLEAN, nagiosplugin : BOOLEAN]

\* The values of --format the build accepts.
FormatsOf(build) ==
    {"Text"} \cup (IF build.serde_json THEN {"Json"} ELSE {})
             \cup (IF build.nagiosplugin THEN {"Nagios"} ELSE {})

\* The CGI environment: whether GATEWAY_INTERFACE is set, the value of the
\* key format in QUERY_STRING and the first entry of HTTP_ACCEPT, each absent
\* or a text.
QueryFormats == {None, Some("text"), Some("nagios"), Some("json"), Some("JSON"), Some("xml")}
AcceptMimes == {None, Some("text/plain"), Some("application/json"), Some("text/html")}
Environments == [gateway : BOOLEAN, query : QueryFormats, accept : AcceptMimes]

\* eq_ignore_ascii_case on the texts tried.
EqIgnoreAsciiCase(a, b) ==
    LET lower(t) == IF t = "JSON" THEN "json" ELSE t
    IN  lower(a) = lower(b)

ExitProcess == [tag |-> "Exit"]
Format(f) == [tag |-> "Format", val |-> f]

\* The format a json or nagios request leaves, or std::process::exit(0) when
\* the build has no such format.
RequestFormat(f, supported) == IF supported THEN Format(f) ELSE ExitProcess

\* Args::update_from_cgi: the format after it, or the exit of the process.
\* It is compiled, and called, only with the feature cgi_detection.
update_from_cgi(format, build, env) ==
    IF ~build.cgi_detection \/ ~env.gateway THEN Format(format)
    ELSE LET q == IF env.query.tag = "None" THEN Format(format)
                  ELSE IF EqIgnoreAsciiCase(env.query.val, "text") THEN Format("Text")
                  ELSE IF EqIgnoreAsciiCase(env.query.val, "nagios")
                       THEN RequestFormat("Nagios", build.nagiosplugin)
                  ELSE IF EqIgnoreAsciiCase(env.query.val, "json")
                       THEN RequestFormat("Json", build.serde_json)
                  ELSE Format(format)
         IN  IF q.tag = "Exit" THEN q
             ELSE IF env.accept.tag = "None" THEN q
             ELSE IF EqIgnoreAsciiCase(env.accept.val, "text/plain") THEN Format("Text")
             ELSE IF EqIgnoreAsciiCase(env.accept.val, "application/json")
                  THEN RequestFormat("Json", build.serde_json)
             ELSE q

\* Args::parse(), update_from_cgi, then todo!() with --active, else
\* Manager::new() is called.
CliParseArgs(build, env, format, isActive, repeat, interval, device) ==
    /\ cliPc = "args"
    /\ format \in FormatsOf(build)
    /\ argActive' = isActive
    /\ argRepeat' = repeat
    /\ argInterval' = interval
    /\ argDevice' = device
    /\ LET cgi == update_from_cgi(format, build, env)
       IN  /\ argFormat' = IF cgi.tag = "Exit" THEN format ELSE cgi.val
           /\ cliPc' = IF cgi.tag = "Exit" THEN "exited"
                       ELSE IF isActive THEN "panicked"
                       ELSE "manager"
    /\ UNCHANGED <<cliReading, cliWait, cliSamples>>
    /\ UNCHANGED <<pipeVars, notMainVars>>

\* Manager::new().await.unwrap(), then discover_aranet4(&manager) is called.
CliManager(ok) ==
    /\ cliPc = "manager"
    /\ cliPc' = IF ok THEN "discovering" ELSE "panicked"
    /\ UNCHANGED <<argFormat, argActive, argRepeat, argInterval, argDevice, cliReading, cliWait,
                   cliSamples>>
    /\ UNCHANGED <<pipeVars, notMainVars>>

\* discover_aranet4(&manager).await? gave the stream: the loop is entered and
\* discovered.next() called.
CliDiscovered ==
    /\ cliPc = "discovering"
    /\ pc = "streaming"
    /\ cliPc' = "listening"
    /\ cstate' = "waiting"
    /\ UNCHANGED <<pc, nAdapters, idx, scanning, subscribed, events, srcEnded, taken,
                   active, lastPull, out, err, transportErr, fault>>
    /\ UNCHANGED <<argFormat, argActive, argRepeat, argInterval, argDevice, cliReading, cliWait,
                   cliSamples>>
    /\ UNCHANGED notMainVars

\* discover_aranet4(&manager).await? gave an error: main returns it.
CliSetupFailed ==
    /\ cliPc = "discovering"
    /\ pc = "failed"
    /\ cliPc' = "failed"
    /\ UNCHANGED <<argFormat, argActive, argRepeat, argInterval, argDevice, cliReading, cliWait,
                   cliSamples>>
    /\ UNCHANGED <<pipeVars, notMainVars>>

\* discovered.next() panicked in the closure: nothing catches it, main's task
\* unwinds and the stream is dropped.
CliUnwinds ==
    /\ cliPc = "listening"
    /\ pc = "panicked"
    /\ cliPc' = "panicked"
    /\ MainDropsStream
    /\ cstate' = "idle"
    /\ UNCHANGED <<nAdapters, idx, scanning, events, srcEnded, taken, lastPull, out,
                   err, transportErr, fault>>
    /\ UNCHANGED <<argFormat, argActive, argRepeat, argInterval, argDevice, cliReading, cliWait,
                   cliSamples>>
    /\ UNCHANGED notMainVars

\* discovered.next() yielded None: the message is printed, the loop left and
\* main returns; with the format nagios print_and_exit() ends the process
\* there.  Either way the stream is gone.
CliStreamEnds ==
    /\ cliPc = "listening"
    /\ pc = "streaming"
    /\ cstate = "idle"
    /\ lastPull = "end"
    /\ cliPc' = "exited"
    /\ MainDropsStream
    /\ UNCHANGED <<nAdapters, idx, scanning, events, srcEnded, taken, cstate, lastPull,
                   out, err, transportErr, fault>>
    /\ UNCHANGED <<argFormat, argActive, argRepeat, argInterval, argDevice, cliReading, cliWait,
                   cliSamples>>
    /\ UNCHANGED notMainVars

\* discovered.next() yielded a record of another device than --device:
\* continue, that is next() again, without a wait.
CliWrongDevice ==
    /\ cliPc = "listening"
    /\ pc = "streaming"
    /\ cstate = "idle"
    /\ lastPull = "item"
    /\ argDevice.tag = "Some"
    /\ argDevice.val # out[Len(out)].peripheral_id
    /\ cstate' = "waiting"
    /\ UNCHANGED <<pc, nAdapters, idx, scanning, subscribed, events, srcEnded, taken,
                   active, lastPull, out, err, transportErr, fault>>
    /\ UNCHANGED cliVars
    /\ UNCHANGED notMainVars

\* discovered.next() yielded a record of the device listened for: it is
\* printed in args.format.  With the format nagios print_and_exit() ends the
\* process after this first sample, whatever --repeat says.  Otherwise,
\* without --repeat the loop is left and main returns; with it the wait is
\* chosen and begun, or with no wait next() is called at once.
CliSample ==
    /\ cliPc = "listening"
    /\ pc = "streaming"
    /\ cstate = "idle"
    /\ lastPull = "item"
    /\ LET first == out[Len(out)]
           reading == IF first.current_reading.tag = "Some"
                      THEN Some(first.current_reading.val.interval)
                      ELSE None
       IN  /\ argDevice.tag = "Some" => argDevice.val = first.peripheral_id
           /\ cliSamples' = cliSamples + 1
           /\ cliReading' = reading
           /\ IF argFormat = "Nagios" \/ ~argRepeat
              THEN /\ cliPc' = "exited"
                   /\ MainDropsStream
                   /\ UNCHANGED <<cliWait, cstate>>
              ELSE /\ cliWait' = WaitOf(IntervalOf(argInterval, reading))
                   /\ CASE cliWait'.tag = "NoWait" ->
                             /\ cliPc' = "listening"
                             /\ cstate' = "waiting"
                             /\ UNCHANGED <<pc, subscribed, active>>
                        [] cliWait'.tag = "Sleep" ->
                             /\ cliPc' = "sleeping"
                             /\ UNCHANGED <<pc, subscribed, active, cstate>>
                        [] cliWait'.tag = "Panic" ->
                             /\ cliPc' = "panicked"
                             /\ MainDropsStream
                             /\ UNCHANGED cstate
    /\ UNCHANGED <<nAdapters, idx, scanning, events, srcEnded, taken, lastPull, out,
                   err, transportErr, fault>>
    /\ UNCHANGED <<argFormat, argActive, argRepeat, argInterval, argDevice>>
    /\ UNCHANGED notMainVars

\* The sleep is over: discovered.next() is called again.
CliWake ==
    /\ cliPc = "sleeping"
    /\ cliPc' = "listening"
    /\ cstate' = "waiting"
    /\ UNCHANGED <<pc, nAdapters, idx, scanning, subscribed, events, srcEnded, taken,
                   active, lastPull, out, err, transportErr, fault>>
    /\ UNCHANGED <<argFormat, argActive, argRepeat, argInterval, argDevice, cliReading, cliWait,
                   cliSamples>>
    /\ UNCHANGED notMainVars

NextCli ==
    \/ cliPc = "args" /\
          \E build \in Builds, env \in Environments, format \in {"Text", "Json", "Nagios"},
             isActive \in BOOLEAN, repeat \in BOOLEAN, interval \in IntervalArgs,
             device \in DeviceArgs :
              CliParseArgs(build, env, format, isActive, repeat, interval, device)
    \/ \E ok \in BOOLEAN : CliManager(ok)
    \/ cliPc = "discovering" /\ \E n \in 0 .. MaxAdapters, ok \in BOOLEAN : ManagerAdapters(n, ok)
    \/ cliPc = "discovering" /\ \E ok \in BOOLEAN : StartScan(ok)
    \/ cliPc = "discovering" /\ \E ok \in BOOLEAN : Subscribe(ok)
    \/ CliDiscovered
    \/ CliSetupFailed
    \/ cliPc # "args" /\ \E a \in 1 .. MaxAdapters, ce \in Events : Deliver(a, ce)
    \/ cliPc # "args" /\ \E a \in 1 .. MaxAdapters : SourceEnd(a)
    \/ cliPc = "listening" /\ \E a \in 1 .. MaxAdapters : PollEvent(a)
    \/ cliPc = "listening" /\ \E a \in 1 .. MaxAdapters : PollSourceEnded(a)
    \/ cliPc = "listening" /\ PollNone
    \/ CliUnwinds
    \/ CliStreamEnds
    \/ CliWrongDevice
    \/ CliSample
    \/ CliWake

SpecCli == Init /\ [][NextCli]_vars

---------------------------------------------------------------------------
(* What the stream has handed out, and what it was given, per adapter.      *)

OutOf(a) == SelectSeq(out, LAMBDA r : r.adapter = a)

\* The peripheral ids of the matching advertisements among the first n events of a.
MatchingIds(a, n) ==
    LET M[i \in 0 .. n] ==
            IF i = 0 THEN <<>>
            ELSE IF IsMatching(events[a][i]) THEN Append(M[i - 1], events[a][i].id)
                 ELSE M[i - 1]
    IN  M[n]

OutIds(a) == [k \in 1 .. Len(OutOf(a)) |-> OutOf(a)[k].peripheral_id]

TargetPayload(ce) == ce.mfg[MANUFACTURER_ID]

\* The record the stream handed out for the i-th event of adapter a, a matching one.
RecordFor(a, i) == OutOf(a)[Len(MatchingIds(a, i))]
HasRecordFor(a, i) == Len(OutOf(a)) >= Len(MatchingIds(a, i))

Taken == { <<a, i>> \in (1 .. MaxAdapters) \X (1 .. MaxEvents) : i <= taken[a] }

---------------------------------------------------------------------------
(* The claims.                                                              *)

\* C1: decoding a 9-byte reading (or a 13-byte detailed reading) whose status
\* byte, byte[8], is not 1, 2 or 3 ends in a MalformedInput error returned to
\* the caller.  The code panics instead.
C1_StatusByteIsMalformedInput ==
    (dKind \in {"CurrentReading", "CurrentReadingDetailed"} /\ dIn[9] \notin {1, 2, 3})
        => (dOut.tag = "Err" /\ dOut.val = "MalformedInput")

\* C2: a target advertisement whose payload has at least 7 bytes and fewer than
\* 21 is handed out as a record with current_reading absent, and the stream
\* keeps running.  The code panics on data[8..21].
C2_ShortReadingIsAbsent ==
    \A t \in Taken :
        LET ce == events[t[1]][t[2]]
        IN  (IsMatching(ce) /\ Len(TargetPayload(ce)) >= 7 /\ Len(TargetPayload(ce)) < 21)
                => /\ fault # t
                   /\ pc # "panicked"
                   /\ HasRecordFor(t[1], t[2])
                   /\ RecordFor(t[1], t[2]).current_reading = None

\* C3: a target advertisement with a full embedded reading whose status byte
\* (payload offset 16) is not 1, 2 or 3 is handed out with current_reading
\* absent, and the stream keeps running.  The code panics in the decoder.
C3_MalformedReadingIsAbsent ==
    \A t \in Taken :
        LET ce == events[t[1]][t[2]]
        IN  (IsMatching(ce) /\ Len(TargetPayload(ce)) >= 21
                            /\ TargetPayload(ce)[17] \notin {1, 2, 3})
                => /\ fault # t
                   /\ pc # "panicked"
                   /\ HasRecordFor(t[1], t[2])
                   /\ RecordFor(t[1], t[2]).current_reading = None

\* C4: a target advertisement whose payload is shorter than 7 bytes does not
\* abort the stream: its processing does not panic and the stream stays usable.
C4_TooShortFailsCleanly ==
    \A t \in Taken :
        LET ce == events[t[1]][t[2]]
        IN  (IsMatching(ce) /\ Len(TargetPayload(ce)) < 7)
                => (fault # t /\ pc # "panicked")

\* C5: every record handed out comes from a manufacturer-data advertisement
\* with an entry keyed by MANUFACTURER_ID: per adapter, the records are no more
\* than the matching advertisements taken from it and carry their peripheral
\* ids in order; events of other kinds or other manufacturers yield nothing.
C5_OnlyMatchingEmitted ==
    /\ \A k \in 1 .. Len(out) : out[k].adapter \in Adapters
    /\ \A a \in 1 .. MaxAdapters :
          /\ Len(OutIds(a)) <= Len(MatchingIds(a, taken[a]))
          /\ OutIds(a) = SubSeq(MatchingIds(a, taken[a]), 1, Len(OutIds(a)))

C5_Witness ==
    \E a \in Adapters :
        /\ taken[a] = 2
        /\ events[a][1].kind \in OtherKinds
        /\ events[a][2].kind = "ManufacturerDataAdvertisement"
        /\ ~IsMatching(events[a][2])
        /\ out = <<>>

\* C6: once the consumer has dropped the stream, no adapter is left scanning
\* or subscribed.  The code never stops a scan.
C6_DropStopsScanning ==
    pc = "dropped" => (scanning = {} /\ subscribed = {})

\* C7: per adapter, the records handed out are exactly one per matching
\* advertisement taken from it, in the adapter's order.  A matching
\* advertisement on which the closure panics yields none.
C7_ExactlyOnePerMatching ==
    \A a \in 1 .. MaxAdapters : OutIds(a) = MatchingIds(a, taken[a])

\* C8: the consumer is told end-of-stream only when every adapter's source has
\* ended and its events are all taken; an adapter whose source is live, or has
\* events left, stays in the merge whatever the other adapters did.
C8_EndsOnlyWhenAllEnded ==
    /\ (lastPull = "end" /\ nAdapters >= 1)
          => \A a \in Adapters : a \in srcEnded /\ taken[a] = Len(events[a])
    /\ pc = "streaming"
          => \A a \in Adapters :
                (a \notin srcEnded \/ taken[a] < Len(events[a])) => a \in active

C8_Witness ==
    /\ pc = "streaming"
    /\ cstate = "idle"
    /\ lastPull = "item"
    /\ 1 \in srcEnded
    /\ 1 \notin active
    /\ 2 \in active
    /\ OutOf(2) # <<>>

\* C9: when the manager reports zero adapters, discover_aranet4 returns a
\* stream (no error), nothing is ever handed out, and a pull is answered with
\* end-of-stream: while the consumer waits, the end is what the stream can
\* and will answer.
C9_ZeroAdaptersEndsAtOnce ==
    (nAdapters = 0 /\ pc \notin {"adapters", "failed"})
        => /\ err = NoError
           /\ pc \in {"streaming", "dropped"}
           /\ out = <<>>
           /\ lastPull \in {"none", "end"}
           /\ (pc = "streaming" /\ cstate = "waiting") => ENABLED PollNone

C9_Witness ==
    nAdapters = 0 /\ pc = "streaming" /\ cstate = "idle" /\ lastPull = "end"

\* C10: an error of start_scan or events() is returned by discover_aranet4 in
\* place of a stream, setup stops at that adapter, and per adapter the scan is
\* started before the subscription.
C10_SetupErrorsReturned ==
    /\ transportErr # NoError => (pc = "failed" /\ err = transportErr)
    /\ pc = "failed"
          => /\ err = transportErr /\ err # NoError
             /\ active = {} /\ out = <<>> /\ subscribed = {}
             /\ err[2] = "start_scan" => scanning = 1 .. (err[1] - 1)
             /\ err[2] = "events" => scanning = 1 .. err[1]
             /\ err[2] = "adapters" => scanning = {}
    /\ pc = "scan" => (scanning = 1 .. (idx - 1) /\ subscribed = 1 .. (idx - 1))
    /\ pc = "events" => (scanning = 1 .. idx /\ subscribed = 1 .. (idx - 1))
    /\ pc = "streaming" => (scanning = Adapters /\ subscribed = active)

C10_Witness ==
    /\ pc = "failed"
    /\ err[1] = 2
    /\ err[2] = "start_scan"
    /\ scanning = {1}

---------------------------------------------------------------------------
(* The decoders' claims.  A reading whose status byte the decoder rejects   *)
(* yields no record, so a field of the record is spoken of when there is    *)
(* one.                                                                     *)

Bit(b, i) == (b \div 2 ^ i) % 2

\* The f32 v is within one unit in the last place of the quotient num/den.
WithinUlp(v, num, den) ==
    IF v.m = 0 THEN num = 0
    ELSE LET x == v.m * den
             y == num * 2 ^ (0 - v.e)
         IN  v.e < 0 /\ x - y <= den /\ y - x <= den

\* The f32 v is at most 1.
AtMostOne(v) == v.m = 0 \/ (v.e < 0 /\ v.m <= 2 ^ (0 - v.e))

DecodedReading == dKind = "CurrentReading" /\ dOut.tag = "Ok"

\* C15: co2_ppm is absent when bit 15 of the little-endian u16 of bytes[0:2]
\* is 1 (the word is 32768 or more), and otherwise present and equal to that
\* word; absence is never turned into 0.
C15_Co2AbsentOnBit15 ==
    DecodedReading
        => LET w == dIn[1] + 256 * dIn[2]
           IN  IF w >= 32768 THEN dOut.val.co2_ppm = None
               ELSE dOut.val.co2_ppm = Some(w)

C15_Witness ==
    DecodedReading /\ dIn[1] = 0 /\ dIn[2] = 128 /\ dOut.val.co2_ppm = None

\* C16: temperature_c is absent exactly when bit 14 of the little-endian u16
\* of bytes[2:4] is set; otherwise it is present, the f32 product of the word
\* and 0.05, within one unit in the last place of word/20, whatever bit 15 is.
C16_TemperatureAbsentOnBit14 ==
    DecodedReading
        => LET w == dIn[3] + 256 * dIn[4]
           IN  IF w \in (16384 .. 32767) \cup (49152 .. 65535)
               THEN dOut.val.temperature_c = None
               ELSE /\ dOut.val.temperature_c.tag = "Some"
                    /\ WithinUlp(dOut.val.temperature_c.val, w, 20)

C16_Witness ==
    /\ DecodedReading
    /\ dIn[3] + 256 * dIn[4] = 33024
    /\ dOut.val.temperature_c = Some(F32(13526631, -13))

\* C17: humidity is byte[6]/100 and battery is byte[7]/100 (as f32, within one
\* unit in the last place), and both lie in [0, 1].  Bytes above 100 decode
\* to more than 1.
C17_FractionsInUnitRange ==
    DecodedReading
        => /\ WithinUlp(dOut.val.humidity, dIn[7], 100)
           /\ WithinUlp(dOut.val.battery, dIn[8], 100)
           /\ AtMostOne(dOut.val.humidity)
           /\ AtMostOne(dOut.val.battery)

\* C18: a 13-byte decode yields a record exactly when the 9-byte decode of
\* its first 9 bytes does, with the same co2_ppm, temperature_c, pressure_hpa,
\* humidity, battery and status, interval the little-endian u16 of bytes
\* [9:11) and age that of bytes [11:13); age may exceed interval.
C18_DetailedExtendsBasic ==
    dKind = "CurrentReadingDetailed"
        => LET b == CurrentReading_parse(SubSeq(dIn, 1, 9))
           IN  /\ dOut.tag = b.tag
               /\ dOut.tag = "Ok"
                    => /\ \A f \in {"co2_ppm", "temperature_c", "pressure_hpa",
                                   "humidity", "battery", "status"} :
                              dOut.val[f] = b.val[f]
                       /\ dOut.val.interval = dIn[10] + 256 * dIn[11]
                       /\ dOut.val.age = dIn[12] + 256 * dIn[13]

C18_Witness ==
    /\ dKind = "CurrentReadingDetailed"
    /\ dOut.tag = "Ok"
    /\ dOut.val.co2_ppm = Some(800)
    /\ dOut.val.interval = 60
    /\ dOut.val.age = 300

CalibrationVariants == <<"NotActive", "EndRequest", "InProgress", "Error">>

\* C19: of a 7-byte input, disconnected is bit 0 of byte 0, calibration_state
\* the variant numbered by bits 2-3, dfu_active bit 4, integrations bit 5, and
\* version (major, minor, patch) = (byte 3, byte 2, byte 1); the bytes
\* [0,1,2,3,0,0,0] decode to v3.2.1, every flag false, calibration NotActive.
C19_ManufacturerDataFields ==
    (dKind = "ManufacturerData" /\ dOut.tag = "Ok")
        => /\ dOut.val.disconnected = (Bit(dIn[1], 0) = 1)
           /\ dOut.val.calibration_state
                 = CalibrationVariants[2 * Bit(dIn[1], 3) + Bit(dIn[1], 2) + 1]
           /\ dOut.val.dfu_active = (Bit(dIn[1], 4) = 1)
           /\ dOut.val.integrations = (Bit(dIn[1], 5) = 1)
           /\ dOut.val.version = [major |-> dIn[4], minor |-> dIn[3], patch |-> dIn[2]]
           /\ dIn = <<0, 1, 2, 3, 0, 0, 0>>
                 => dOut.val = [disconnected |-> FALSE, calibration_state |-> "NotActive",
                                dfu_active |-> FALSE, integrations |-> FALSE,
                                version |-> [major |-> 3, minor |-> 2, patch |-> 1]]

C19_Witness ==
    /\ dKind = "ManufacturerData"
    /\ dIn = <<0, 1, 2, 3, 0, 0, 0>>
    /\ dOut.tag = "Ok"
    /\ dOut.val.version = [major |-> 3, minor |-> 2, patch |-> 1]

---------------------------------------------------------------------------
(* The device abstraction's claims. *)

\* The length the operation requires of the bytes read; name and version
\* take any length.
RequiredLen(op) ==
    CASE op = "current_readings" -> 9
      [] op = "current_readings_details" -> 13
      [] op \in {"interval", "last_update_age", "total_readings"} -> 2

\* The characteristic that holds what the 2-byte operation is named after.
OwnCharacteristic(op) ==
    CASE op = "interval" -> AR4_READ_INTERVAL
      [] op = "last_update_age" -> AR4_READ_SECONDS_SINCE_UPDATE
      [] op = "total_readings" -> AR4_READ_TOTAL_READINGS

\* C11: Aranet4::new returns NotConnected when the peripheral is not
\* connected, before anything else (no discovery, the service set untouched);
\* connected, it triggers service discovery exactly when the service set is
\* empty, and then returns the handle iff the service set contains AR4_SERVICE
\* and NotSupported otherwise, a device with only the legacy service
\* included.  An error of the transport (is_connected, discover_services) is
\* returned as it is.
C11_NewChecksConnectionThenService ==
    hOp = "new"
        => /\ hChecked = Ok(FALSE)
                => hResult = Err("NotConnected") /\ ~hDiscovered /\ services = hBefore
           /\ hChecked.tag = "Err"
                => hResult = hChecked /\ ~hDiscovered /\ services = hBefore
           /\ hChecked = Ok(TRUE)
                => /\ hDiscovered <=> hBefore = {}
                   /\ ~hDiscovered => services = hBefore
                   /\ hpc = "discovering" <=> hResult = None
                   /\ hResult = None => hDiscovered /\ services = {}
                   /\ hResult \in {None, Ok("Aranet4"), Err("NotSupported"), Err("Transport")}
                   /\ hResult = Err("Transport") => hDiscovered /\ services = {}
                   /\ hResult = Ok("Aranet4") => AR4_SERVICE \in services
                   /\ hResult = Err("NotSupported") => AR4_SERVICE \notin services
           /\ hpc = "open" <=> hResult = Ok("Aranet4")

C11_Witness ==
    /\ hOp = "new"
    /\ hChecked = Ok(TRUE)
    /\ hDiscovered
    /\ services = {AR4_OLD_SERVICE, GENERIC_SERVICE, COMMON_SERVICE}
    /\ hResult = Err("NotSupported")

\* C12: interval, last_update_age and total_readings each read their own
\* characteristic (AR4_READ_INTERVAL, AR4_READ_SECONDS_SINCE_UPDATE,
\* AR4_READ_TOTAL_READINGS) and return the little-endian u16 of the bytes
\* read from it.  total_readings reads the characteristic of last_update_age.
C12_EachReadsItsOwnCharacteristic ==
    (hOp \in {"interval", "last_update_age", "total_readings"} /\ hChecked = Ok(TRUE))
        => /\ hReads[Len(hReads)] = OwnCharacteristic(hOp)
           /\ (hRaw = Some(DeviceValue(hReads[Len(hReads)])))
                => LET own == DeviceValue(OwnCharacteristic(hOp))
                   IN  hResult = Ok(own[1] + 256 * own[2])

\* C13: a payload of the wrong length (not 9 bytes for current_readings, not
\* 13 for current_readings_details, not 2 for interval, last_update_age and
\* total_readings) makes the operation return a MalformedInput error: no
\* crash, no value.  The code unwraps the conversion with expect and panics.
C13_WrongLengthIsMalformedInput ==
    (/\ hOp \in Ops \ {"name", "version"}
     /\ hRaw.tag = "Some"
     /\ Len(hRaw.val) # RequiredLen(hOp))
        => hResult = Err("MalformedInput") /\ hpc = "open"

\* C14: every read operation re-checks the connection on each call: a call
\* made while the peripheral is disconnected returns NotConnected and issues
\* no characteristic read, and each call made while connected issues exactly
\* one read, whose bytes alone determine the result (nothing is cached).
C14_EveryCallChecksAndReads ==
    /\ Len(hReads) = nConnected
    /\ hOp \in Ops
        => /\ hChecked = Ok(FALSE) => hResult = Err("NotConnected") /\ hRaw = None
           /\ hChecked.tag = "Err" => hResult = hChecked /\ hRaw = None
           /\ hChecked = Ok(TRUE)
                => /\ hReads[Len(hReads)] = CharacteristicOf(hOp)
                   /\ hpc = "reading" => hResult = None /\ hRaw = None
                   /\ hRaw.tag = "Some" => hResult = Decode(hOp, hRaw.val)
                   /\ (hpc # "reading" /\ hRaw = None) => hResult = Err("Transport")

C14_Witness ==
    /\ hOp = "interval"
    /\ hChecked = Ok(FALSE)
    /\ hResult = Err("NotConnected")
    /\ nConnected = 1
    /\ nOther = 1
    /\ hReads = <<AR4_READ_INTERVAL>>

---------------------------------------------------------------------------
(* The command-line loop's claim. *)

\* The wait the documentation of --interval gives: 0 asks for the interval
\* of the device's reading (60 seconds without a reading), as does an absent
\* --interval; -1 asks for no wait; another value is the wait itself.
DocumentedWait(interval, reading) ==
    LET device == IF reading.tag = "Some" THEN Sleep(reading.val) ELSE Sleep(60)
    IN  IF interval.tag = "None" THEN device
        ELSE IF interval.val = 0 THEN device
        ELSE IF interval.val = -1 THEN NoWait
        ELSE Sleep(interval.val)

\* C20: in the repeat loop the wait before listening for the next sample
\* follows the documented --interval rule: with 0 the interval of the
\* device's reading, with -1 no wait, with another (non-negative) value that
\* value; without --interval the device's interval, or 60 seconds if the
\* advertisement carried no reading.  (With the format nagios there is no
\* repeat loop: the process ends after the first sample.)  The code sleeps
\* 0 seconds on 0.
C20_WaitFollowsIntervalRule ==
    (/\ argRepeat
     /\ argFormat # "Nagios"
     /\ cliSamples > 0
     /\ argInterval.tag = "Some" => argInterval.val >= -1)
        => cliWait = DocumentedWait(argInterval, cliReading)

---------------------------------------------------------------------------
(* Totality of the manufacturer-data decoder. *)

\* The input with bits 1, 6 and 7 of byte 0 cleared and bytes 4-6 zeroed.
WithoutUnusedBits(data) ==
    <<data[1] - 2 * Bit(data[1], 1) - 64 * Bit(data[1], 6) - 128 * Bit(data[1], 7),
      data[2], data[3], data[4], 0, 0, 0>>

\* C21: ManufacturerData::parse is total on 7-byte inputs: the calibration
\* field is masked to 2 bits before CalibrationState::from_raw, so the
\* "unexpected value for calibration state" failure never happens; and bits
\* 1, 6 and 7 of byte 0 and bytes 4-6 have no effect on the result.
C21_ManufacturerDataParseIsTotal ==
    dKind = "ManufacturerData"
        => /\ dOut.tag = "Ok"
           /\ CalibrationState_from_raw((dIn[1] \div 4) % 4).tag = "Some"
           /\ dOut = ManufacturerData_parse(WithoutUnusedBits(dIn))

C21_Witness ==
    /\ dKind = "ManufacturerData"
    /\ dIn = <<255, 0, 2, 1, 255, 255, 255>>
    /\ dOut.tag = "Ok"
    /\ dOut.val.calibration_state = "Error"
    /\ dOut = ManufacturerData_parse(<<61, 0, 2, 1, 0, 0, 0>>)

=============================================================================
